---- MODULE Spec2Model ----
(***************************************************************************)
(* Model of src/src/scan_adapter.py: the scan loop of main(), the per-file *)
(* lifecycle process_pdf_file(), the upload driver                         *)
(* upload_to_paperless_with_retry() and the disposition actions            *)
(* delete_file() / move_to_archive().                                      *)
(*                                                                         *)
(* The program is single threaded.  One action of the model is one step of *)
(* the scan loop (list + cleanup, one file of the for loop, the poll       *)
(* sleep); the environment (scanner, operator) moves in between.  Time    *)
(* passes in the sleeps of the loop and of the upload driver.              *)
(* What the outside world answers inside a step (a read error, the API's   *)
(* answers, an unlink or rename that fails) is an input of the step.       *)
(***************************************************************************)
EXTENDS Integers, Sequences, FiniteSets, TLC

\* ------------------------------------------------------------------------
\* Configuration (environment variables read at import, lines 15-19), in
\* seconds.  The defaults are 5, 10, 3, 5 and 5; the model runs with small
\* values that keep the ratios of the backoff (1, 2, 4, ...).
VALIDATION_RETRY_COUNT == 3
VALIDATION_RETRY_BASE_WAIT_SECONDS == 1
UPLOAD_RETRY_COUNT == 3
UPLOAD_RETRY_BASE_WAIT_SECONDS == 1
SCAN_INTERVAL_SECONDS == 1
\* is_pdf_valid reads at most this many trailing bytes (line 67).
TAIL_CHUNK == 1024

\* ------------------------------------------------------------------------
\* Bounds of the model.
\* The clock stops being advanced at MaxTime (seconds since start).
MaxTime == 7
\* How many files the scanner/operator deposits in a run.
MaxDeposits == 2

\* ------------------------------------------------------------------------
\* File names.  A name is <stem>.pdf; the stem is a base followed by zero or
\* more "_<timestamp>" parts, kept as the sequence ts.  The second file of
\* the scan directory carries a name that looks like an archive name.
Name(b, t) == [base |-> b, ts |-> t]
F1 == Name("scan", <<>>)
F2 == Name("scan", <<[ymd |-> 0, hms |-> 2]>>)
Files == {F1, F2}

\* File contents, as bytes.
Empty == <<>>
Truncated == <<"x", "%", "%", "E", "O">>
Complete == <<"x", "%", "%", "E", "O", "F", "CR", "LF">>
Contents == {Empty, Truncated, Complete}
EofMarker == <<"%", "%", "E", "O", "F">>
StripBytes == {"NUL", "TAB", "LF", "CR", "SP", "FF"}

IsPrefix(s, t) == Len(s) <= Len(t) /\ SubSeq(t, 1, Len(s)) = s

VARIABLES
    now,          \* time.time(), whole seconds
    present,      \* which files are in the scan directory
    content,      \* their bytes
    archive,      \* names in the archive directory
    retry_state,  \* the global dict of line 29: file -> entry
    pc,           \* where main's loop stands: "list", "files"
    pdf_files,    \* the listing of the current cycle
    idx,          \* position of the for loop in pdf_files
    accepted,     \* history: the file now in the directory had an upload accepted
    observed,     \* history: seen invalid, not since confirmed valid/deleted/dropped
    attempts,     \* history: the charged validation attempts of the entry
    deposits,     \* history: number of deposits so far
    last          \* history: what the last step did

vars == <<now, present, content, archive, retry_state, pc, pdf_files, idx,
          accepted, observed, attempts, deposits, last>>

\* ------------------------------------------------------------------------
\* is_pdf_valid (lines 50-82)

Min(a, b) == IF a <= b THEN a ELSE b

\* f.seek(-chunk_size, SEEK_END); f.read()
TailChunk(b) == SubSeq(b, Len(b) - Min(TAIL_CHUNK, Len(b)) + 1, Len(b))

\* bytes.rstrip(b"\x00\t\n\r \f")
RECURSIVE RStrip(_)
RStrip(b) ==
    IF b # <<>> /\ b[Len(b)] \in StripBytes
    THEN RStrip(SubSeq(b, 1, Len(b) - 1))
    ELSE b

\* bytes.endswith
EndsWith(b, m) == Len(b) >= Len(m) /\ SubSeq(b, Len(b) - Len(m) + 1, Len(b)) = m

\* ioerr: open/seek/read raised; the except branch returns False.
is_pdf_valid(b, ioerr) ==
    IF ioerr THEN FALSE
    ELSE IF Len(b) = 0 THEN FALSE
    ELSE EndsWith(RStrip(TailChunk(b)), EofMarker)

\* ------------------------------------------------------------------------
\* Backoff: BASE * (2 ** attempt), lines 172 and 260.
RECURSIVE Pow2(_)
Pow2(n) == IF n = 0 THEN 1 ELSE 2 * Pow2(n - 1)

\* Faulty variant: the wait grows linearly.
BackoffLinear(base, attempt) == base * (attempt + 1)

BackoffWait(base, attempt) == base * Pow2(attempt)

\* ------------------------------------------------------------------------
\* The retry decision of process_pdf_file (lines 228-276).

RemoveKey(rs, k) == [x \in DOMAIN rs \ {k} |-> rs[x]]

\* Faulty variant: the waiting period is not looked at.
RetryAtOnce(t, next) == TRUE

\* line 239: current_time >= state["next_retry_time"]
ShouldRetryNow(t, next) == t >= next

\* Faulty variant: the retries are never taken as exhausted.
RetriesNeverExhausted(rc) == FALSE

\* Faulty variant: the limit is compared with > instead of >=.
RetriesExhaustedLate(rc) == rc > VALIDATION_RETRY_COUNT

\* line 243: retry_count >= VALIDATION_RETRY_COUNT
RetriesExhausted(rc) == rc >= VALIDATION_RETRY_COUNT

\* Faulty variant: a due attempt is counted twice.
RescheduleCountsTwo(state, t) ==
    [retry_count |-> state.retry_count + 2,
     next_retry_time |-> t + BackoffWait(VALIDATION_RETRY_BASE_WAIT_SECONDS,
                                         state.retry_count)]

\* lines 260-263: the entry after a due attempt that found the file invalid
Reschedule(state, t) ==
    [retry_count |-> state.retry_count + 1,
     next_retry_time |-> t + BackoffWait(VALIDATION_RETRY_BASE_WAIT_SECONDS,
                                         state.retry_count)]

\* The ways through lines 228-276.  Each gives the decision, the new
\* retry_state, whether line 253 read the file again, and the name of the
\* path taken.

\* Faulty variant: the give-up leaves the entry in retry_state.
OnExhaustedKeepsEntry(rs, f) ==
    [decision |-> "GiveUp", rs |-> rs, reread |-> FALSE, path |-> "giveup"]

\* lines 244-248: retries exhausted
OnExhausted(rs, f) ==
    [decision |-> "GiveUp", rs |-> RemoveKey(rs, f), reread |-> FALSE,
     path |-> "giveup"]

\* Faulty variant: a file that became valid is left for the next cycle.
OnBecameValidDeferred(rs, f) ==
    [decision |-> "Skip", rs |-> RemoveKey(rs, f), reread |-> TRUE,
     path |-> "revalid"]

\* lines 253-257: the due re-check found the file valid
OnBecameValid(rs, f) ==
    [decision |-> "Proceed", rs |-> RemoveKey(rs, f), reread |-> TRUE,
     path |-> "revalid"]

\* lines 258-266: the due re-check found the file still invalid
OnStillInvalid(rs, f, t) ==
    [decision |-> "Skip", rs |-> [rs EXCEPT ![f] = Reschedule(rs[f], t)],
     reread |-> TRUE, path |-> "resched"]

\* lines 267-271: the waiting period has not elapsed
OnWaiting(rs, f) ==
    [decision |-> "Skip", rs |-> rs, reread |-> FALSE, path |-> "wait"]

\* Faulty variant: a file found valid keeps its entry.
OnValidKeepsEntry(rs, f) ==
    [decision |-> "Proceed", rs |-> rs, reread |-> FALSE, path |-> "valid"]

\* lines 273-276: line 228 found the file valid
OnValid(rs, f) ==
    [decision |-> "Proceed", rs |-> RemoveKey(rs, f), reread |-> FALSE,
     path |-> "valid"]

\* v1: the answer of is_pdf_valid at line 228; v2: its answer at line 253,
\* were it called.
Evaluate(rs, f, t, v1, v2) ==
    IF ~v1 THEN
        \* lines 230-236
        LET rs1 == IF f \in DOMAIN rs THEN rs
                   ELSE rs @@ (f :> [retry_count |-> 0, next_retry_time |-> t])
            state == rs1[f]
        IN  IF ShouldRetryNow(t, state.next_retry_time) THEN
                IF RetriesExhausted(state.retry_count) THEN OnExhausted(rs1, f)
                ELSE IF v2 THEN OnBecameValid(rs1, f)
                ELSE OnStillInvalid(rs1, f, t)
            ELSE OnWaiting(rs1, f)
    ELSE OnValid(rs, f)

\* ------------------------------------------------------------------------
\* upload_to_paperless_with_retry (lines 156-183).  authOK[k] is the answer
\* of the k-th authenticate_paperless call (a token or None), upOK[k] the
\* answer of the k-th upload_file_to_paperless call.  The token of the k-th
\* authentication is written k.  The result carries the call's events.

Event(e, ok, n) == [ev |-> e, ok |-> ok, n |-> n]

\* Faulty variant: the loop ends one attempt early.
AttemptsExhaustedEarly(attempt) == attempt + 1 >= UPLOAD_RETRY_COUNT

\* line 167: range(UPLOAD_RETRY_COUNT) is used up
AttemptsExhausted(attempt) == attempt >= UPLOAD_RETRY_COUNT

\* line 171: attempt < UPLOAD_RETRY_COUNT - 1
AttemptsRemain(attempt) == attempt < UPLOAD_RETRY_COUNT - 1

\* Faulty variant: the result of authenticate_paperless is not checked.
TokenUnchecked(ok) == FALSE

\* line 162: if not token
FirstAuthFailed(ok) == ~ok

\* line 178: if not token
ReauthFailed(ok) == ~ok

RECURSIVE UploadLoop(_, _, _, _, _)
UploadLoop(attempt, token, authOK, upOK, log) ==
    IF AttemptsExhausted(attempt) THEN [ret |-> FALSE, log |-> log]
    ELSE
        LET log1 == Append(log, Event("upload", upOK[attempt + 1], token)) IN
        IF upOK[attempt + 1] THEN [ret |-> TRUE, log |-> log1]
        ELSE IF AttemptsRemain(attempt) THEN
            LET wait_time == BackoffWait(UPLOAD_RETRY_BASE_WAIT_SECONDS, attempt)
                log2 == Append(log1, Event("sleep", TRUE, wait_time))
                log3 == Append(log2, Event("auth", authOK[attempt + 2], attempt + 2))
            IN  IF ReauthFailed(authOK[attempt + 2])
                THEN [ret |-> FALSE, log |-> log3]
                ELSE UploadLoop(attempt + 1, attempt + 2, authOK, upOK, log3)
        ELSE UploadLoop(attempt + 1, token, authOK, upOK, log1)

\* Faulty variant: the call starts with a token kept from an earlier call.
UploadWithCarriedToken(authOK, upOK) == UploadLoop(0, 0, authOK, upOK, <<>>)

upload_to_paperless_with_retry(authOK, upOK) ==
    LET log0 == <<Event("auth", authOK[1], 1)>> IN
    IF FirstAuthFailed(authOK[1]) THEN [ret |-> FALSE, log |-> log0]
    ELSE UploadLoop(0, 1, authOK, upOK, log0)

\* time.sleep total of a call
RECURSIVE Slept(_)
Slept(log) ==
    IF log = <<>> THEN 0
    ELSE (IF Head(log).ev = "sleep" THEN Head(log).n ELSE 0) + Slept(Tail(log))

\* ------------------------------------------------------------------------
\* move_to_archive (lines 197-217)

\* time.strftime('%Y%m%d_%H%M%S'): the day and the second of the day
DAY_SECONDS == 86400
Strftime(t) == [ymd |-> t \div DAY_SECONDS, hms |-> t % DAY_SECONDS]

\* lines 203-210
ArchiveDestination(arch, name, t) ==
    IF name \in arch
    THEN Name(name.base, Append(name.ts, Strftime(t)))
    ELSE name

\* ------------------------------------------------------------------------
\* get_pdf_files (lines 40-47): sorted(folder.glob('*.pdf')).  Of two names
\* with the same base the one that is a prefix of the other sorts first
\* ("scan.pdf" < "scan_...pdf"); timestamps sort by value.

StampLess(a, b) == a.ymd < b.ymd \/ (a.ymd = b.ymd /\ a.hms < b.hms)

RECURSIVE SeqLess(_, _)
SeqLess(s, t) ==
    IF s = <<>> THEN t # <<>>
    ELSE IF t = <<>> THEN FALSE
    ELSE IF Head(s) = Head(t) THEN SeqLess(Tail(s), Tail(t))
    ELSE StampLess(Head(s), Head(t))

NameLess(a, b) == a.base = b.base /\ SeqLess(a.ts, b.ts)

RECURSIVE Sorted(_)
Sorted(S) ==
    IF S = {} THEN <<>>
    ELSE LET m == CHOOSE x \in S : \A y \in S \ {x} : NameLess(x, y)
         IN  <<m>> \o Sorted(S \ {m})

get_pdf_files == Sorted({f \in Files : present[f]})

\* ------------------------------------------------------------------------
\* The record of a step.

\* path: the way process_pdf_file took, "valid" (line 228 found the file
\* valid), "wait" (line 271), "giveup" (line 248), "revalid" (line 256) or
\* "resched" (line 266).  rc: the retry_count read at line 241.
\* log, ret: the upload driver's events and result.
\* del, arc: the call of delete_file / move_to_archive and how it ended.
\* dest, clash, replaced: the archive name chosen, whether the file's own
\* name was taken, whether the rename replaced a file of the archive.
\* again: an upload was accepted for a file that had one accepted before.
\* purged: the keys the cleanup of lines 326-331 removed.
NoStep ==
    [op |-> "none", file |-> F1, path |-> "none", rc |-> 0, log |-> <<>>,
     ret |-> FALSE, del |-> "none", arc |-> "none", dest |-> F1,
     clash |-> FALSE, replaced |-> FALSE, again |-> FALSE, purged |-> {}]

\* The archive directory outlives the process: at start it is empty or holds
\* a file archived by an earlier run.
InitialArchives == {{}, {F1}}

Init ==
    /\ now = 0
    /\ present = [f \in Files |-> FALSE]
    /\ content = [f \in Files |-> Empty]
    /\ archive \in InitialArchives
    /\ retry_state = <<>>
    /\ pc = "list"
    /\ pdf_files = <<>>
    /\ idx = 1
    /\ accepted = [f \in Files |-> FALSE]
    /\ observed = [f \in Files |-> FALSE]
    /\ attempts = [f \in Files |-> <<>>]
    /\ deposits = 0
    /\ last = NoStep

\* ------------------------------------------------------------------------
\* The environment: the scanner and the operator on the shared directory,
\* between the steps of the loop.

Deposit(f, c) ==
    /\ ~present[f]
    /\ deposits < MaxDeposits
    /\ present' = [present EXCEPT ![f] = TRUE]
    /\ content' = [content EXCEPT ![f] = c]
    /\ deposits' = deposits + 1
    /\ UNCHANGED <<now, archive, retry_state, pc, pdf_files, idx, accepted,
                   observed, attempts, last>>

\* The scanner goes on writing a file it has not finished.
ScannerWrite(f, c) ==
    /\ present[f]
    /\ c # content[f] /\ IsPrefix(content[f], c)
    /\ content' = [content EXCEPT ![f] = c]
    /\ UNCHANGED <<now, present, archive, retry_state, pc, pdf_files, idx,
                   accepted, observed, attempts, deposits, last>>

\* Somebody removes a file from the scan directory.
ManualRemove(f) ==
    /\ present[f]
    /\ present' = [present EXCEPT ![f] = FALSE]
    /\ content' = [content EXCEPT ![f] = Empty]
    /\ accepted' = [accepted EXCEPT ![f] = FALSE]
    /\ UNCHANGED <<now, archive, retry_state, pc, pdf_files, idx,
                   observed, attempts, deposits, last>>

\* ------------------------------------------------------------------------
\* main, lines 324-331: the listing and the cleanup of retry_state.

\* Faulty variant: the cleanup leaves every entry in place.
CleanupKeepsAll(rs, listing) == rs

Cleanup(rs, listing) ==
    LET current_file_keys == {listing[i] : i \in 1..Len(listing)}
    IN  [k \in DOMAIN rs \cap current_file_keys |-> rs[k]]

ListAndCleanup ==
    /\ pc = "list"
    /\ pdf_files' = get_pdf_files
    /\ retry_state' = Cleanup(retry_state, pdf_files')
    /\ observed' = [f \in Files |->
                      IF f \in DOMAIN retry_state \ DOMAIN retry_state'
                      THEN FALSE ELSE observed[f]]
    /\ attempts' = [f \in Files |->
                      IF f \in DOMAIN retry_state' THEN attempts[f] ELSE <<>>]
    /\ idx' = 1
    /\ pc' = "files"
    /\ last' = [NoStep EXCEPT
                    !.op = "list",
                    !.purged = DOMAIN retry_state \ DOMAIN retry_state']
    /\ UNCHANGED <<now, present, content, archive, accepted, deposits>>

\* lines 339-340: the file of the listing is gone
SkipMissing ==
    /\ pc = "files" /\ idx <= Len(pdf_files)
    /\ ~present[pdf_files[idx]]
    /\ idx' = idx + 1
    /\ last' = [NoStep EXCEPT !.op = "missing", !.file = pdf_files[idx]]
    /\ UNCHANGED <<now, present, content, archive, retry_state, pc, pdf_files,
                   accepted, observed, attempts, deposits>>

\* lines 346-348
Sleep ==
    /\ pc = "files" /\ idx > Len(pdf_files)
    /\ now + SCAN_INTERVAL_SECONDS <= MaxTime
    /\ now' = now + SCAN_INTERVAL_SECONDS
    /\ pc' = "list"
    /\ last' = [NoStep EXCEPT !.op = "sleep"]
    /\ UNCHANGED <<present, content, archive, retry_state, pdf_files, idx,
                   accepted, observed, attempts, deposits>>

\* ------------------------------------------------------------------------
\* The disposition actions.

\* delete_file (lines 186-194): ok is whether unlink() went through
delete_file(pres, f, ok) == IF ok THEN [pres EXCEPT ![f] = FALSE] ELSE pres

\* Faulty variant: the file is deleted whatever the upload returned.
AfterUploadAlwaysDelete(ret) == "delete"

\* Faulty variant: the file is archived whatever the upload returned.
AfterUploadAlwaysArchive(ret) == "archive"

\* lines 279-287: what process_pdf_file does with the upload's result
AfterUpload(ret) == IF ret THEN "delete" ELSE "archive"

\* Every run the upload driver can make, over all answers of the API.
Answers == [1..UPLOAD_RETRY_COUNT -> BOOLEAN]
UploadRuns ==
    {upload_to_paperless_with_retry(a, u) : a \in Answers, u \in Answers}

\* ------------------------------------------------------------------------
\* process_pdf_file (lines 220-287) on the file f.

\* What the step leaves in the history variables.
Observed(f, stillInvalid, gone) ==
    [observed EXCEPT ![f] = stillInvalid /\ ~gone]

Attempts(f, ev) ==
    [attempts EXCEPT ![f] =
        IF f \notin DOMAIN ev.rs THEN <<>>
        ELSE IF ev.path = "resched"
             THEN Append(@, ev.rs[f].next_retry_time - now)
             ELSE @]

StepRecord(f, v1, ev) ==
    [NoStep EXCEPT
        !.op = "process", !.file = f, !.path = ev.path,
        !.rc = IF ev.path \in {"giveup", "revalid", "resched"}
               THEN (IF f \in DOMAIN retry_state
                     THEN retry_state[f].retry_count ELSE 0)
               ELSE 0]

\* Faulty variant: a skip that sleeps the poll interval before it returns.
SkipSleeping(f, v1, ev) ==
    /\ ev.decision = "Skip"
    /\ retry_state' = ev.rs
    /\ observed' = Observed(f, TRUE, FALSE)
    /\ attempts' = Attempts(f, ev)
    /\ last' = StepRecord(f, v1, ev)
    /\ now' = Min(now + SCAN_INTERVAL_SECONDS, MaxTime)
    /\ UNCHANGED <<present, archive, accepted>>

\* lines 266 and 271: return False, the file stays for a later cycle
Skip(f, v1, ev) ==
    /\ ev.decision = "Skip"
    /\ retry_state' = ev.rs
    /\ observed' = Observed(f, TRUE, FALSE)
    /\ attempts' = Attempts(f, ev)
    /\ last' = StepRecord(f, v1, ev)
    /\ UNCHANGED <<now, present, archive, accepted>>

\* lines 243-248: delete_file, then del retry_state[file_key]
GiveUp(f, v1, ev) ==
    /\ ev.decision = "GiveUp"
    /\ \E ok \in BOOLEAN :
        /\ present' = delete_file(present, f, ok)
        /\ observed' = Observed(f, TRUE, ok)
        /\ last' = [StepRecord(f, v1, ev) EXCEPT
                        !.del = IF ok THEN "ok" ELSE "failed"]
    /\ retry_state' = ev.rs
    /\ attempts' = Attempts(f, ev)
    /\ UNCHANGED <<now, archive, accepted>>

\* lines 273-287: the upload, then delete_file or move_to_archive
Proceed(f, v1, ev) ==
    /\ ev.decision = "Proceed"
    /\ retry_state' = ev.rs
    /\ attempts' = Attempts(f, ev)
    /\ observed' = Observed(f, FALSE, FALSE)
    /\ \E r \in UploadRuns, ok \in BOOLEAN :
        LET rec == [StepRecord(f, v1, ev) EXCEPT
                        !.log = r.log, !.ret = r.ret,
                        !.again = r.ret /\ accepted[f]]
            dest == ArchiveDestination(archive, f, now')
        IN
        /\ now + Slept(r.log) <= MaxTime
        /\ now' = now + Slept(r.log)
        /\ \/ /\ AfterUpload(r.ret) = "delete"
              /\ present' = delete_file(present, f, ok)
              /\ archive' = archive
              /\ last' = [rec EXCEPT !.del = IF ok THEN "ok" ELSE "failed"]
           \/ /\ AfterUpload(r.ret) = "archive"
              /\ present' = IF ok THEN [present EXCEPT ![f] = FALSE]
                            ELSE present
              /\ archive' = IF ok THEN archive \cup {dest} ELSE archive
              /\ last' = [rec EXCEPT
                            !.arc = IF ok THEN "ok" ELSE "failed",
                            !.dest = dest,
                            !.clash = f \in archive,
                            !.replaced = ok /\ dest \in archive]
        /\ accepted' = [accepted EXCEPT ![f] = present'[f] /\ (@ \/ r.ret)]

process_pdf_file(f) ==
    \E err1 \in BOOLEAN, err2 \in BOOLEAN, c2 \in Contents :
        LET v1 == is_pdf_valid(content[f], err1)
            v2 == is_pdf_valid(c2, err2)
            ev == Evaluate(retry_state, f, now, v1, v2)
        IN
        \* the scanner may have written on between the two reads
        /\ IsPrefix(content[f], c2)
        /\ ~ev.reread => (c2 = content[f] /\ ~err2)
        /\ \/ Skip(f, v1, ev)
           \/ GiveUp(f, v1, ev)
           \/ Proceed(f, v1, ev)
        /\ content' = [content EXCEPT
                          ![f] = IF present'[f] THEN c2 ELSE Empty]

\* main, lines 337-342: one turn of the for loop on a file that exists
ProcessFile ==
    /\ pc = "files" /\ idx <= Len(pdf_files)
    /\ present[pdf_files[idx]]
    /\ process_pdf_file(pdf_files[idx])
    /\ idx' = idx + 1
    /\ UNCHANGED <<pc, pdf_files, deposits>>

\* ------------------------------------------------------------------------

Next ==
    \/ \E f \in Files, c \in Contents : Deposit(f, c)
    \/ \E f \in Files, c \in Contents : ScannerWrite(f, c)
    \/ \E f \in Files : ManualRemove(f)
    \/ ListAndCleanup
    \/ SkipMissing
    \/ ProcessFile
    \/ Sleep

Spec == Init /\ [][Next]_vars

\* ------------------------------------------------------------------------
\* The loop with its faults: a listing that fails, an unexpected exception
\* in the cycle, and the termination signal.

\* get_pdf_files, lines 45-47: glob raised, the listing is empty; the
\* cleanup of lines 326-331 then runs on the empty listing
ListFails ==
    /\ pc = "list"
    /\ pdf_files' = <<>>
    /\ retry_state' = Cleanup(retry_state, pdf_files')
    /\ observed' = [f \in Files |->
                      IF f \in DOMAIN retry_state \ DOMAIN retry_state'
                      THEN FALSE ELSE observed[f]]
    /\ attempts' = [f \in Files |->
                      IF f \in DOMAIN retry_state' THEN attempts[f] ELSE <<>>]
    /\ idx' = 1
    /\ pc' = "files"
    /\ last' = [NoStep EXCEPT
                    !.op = "listfail",
                    !.purged = DOMAIN retry_state \ DOMAIN retry_state']
    /\ UNCHANGED <<now, present, content, archive, accepted, deposits>>

\* Faulty variant: an unexpected exception ends the loop.
LoopExceptionExits ==
    /\ pc = "files" /\ idx <= Len(pdf_files)
    /\ pc' = "done"
    /\ last' = [NoStep EXCEPT !.op = "error", !.file = pdf_files[idx]]
    /\ UNCHANGED <<now, present, content, archive, retry_state, pdf_files,
                   idx, accepted, observed, attempts, deposits>>

\* lines 353-355: an exception no helper caught (Path.exists() of line 339
\* raising on an I/O error of the share) leaves the for loop; the handler
\* logs it, sleeps the poll interval and the while loop goes on
LoopException ==
    /\ pc = "files" /\ idx <= Len(pdf_files)
    /\ now + SCAN_INTERVAL_SECONDS <= MaxTime
    /\ now' = now + SCAN_INTERVAL_SECONDS
    /\ pc' = "list"
    /\ last' = [NoStep EXCEPT !.op = "error", !.file = pdf_files[idx]]
    /\ UNCHANGED <<present, content, archive, retry_state, pdf_files, idx,
                   accepted, observed, attempts, deposits>>

\* lines 350-352: the termination signal ends the loop and the process; its
\* memory (retry_state, the listing) is gone.  The signal is taken between
\* two steps of the loop.
Interrupt ==
    /\ pc # "done"
    /\ pc' = "done"
    /\ retry_state' = <<>>
    /\ pdf_files' = <<>>
    /\ idx' = 1
    /\ observed' = [f \in Files |-> FALSE]
    /\ attempts' = [f \in Files |-> <<>>]
    /\ last' = [NoStep EXCEPT !.op = "interrupt"]
    /\ UNCHANGED <<now, present, content, archive, accepted, deposits>>

NextFaults ==
    \/ Next
    \/ ListFails
    \/ LoopException
    \/ Interrupt

SpecFaults == Init /\ [][NextFaults]_vars

\* ------------------------------------------------------------------------
\* The loop that keeps running: its cycles go on (lines 322-348), and every
\* unlink() of delete_file and every rename() of move_to_archive goes
\* through.

LoopStep ==
    \/ ListAndCleanup
    \/ SkipMissing
    \/ ProcessFile
    \/ Sleep

DispositionsSucceed == last'.del # "failed" /\ last'.arc # "failed"

NextFair ==
    \/ \E f \in Files, c \in Contents : Deposit(f, c)
    \/ \E f \in Files, c \in Contents : ScannerWrite(f, c)
    \/ \E f \in Files : ManualRemove(f)
    \/ ListAndCleanup
    \/ SkipMissing
    \/ ProcessFile /\ DispositionsSucceed
    \/ Sleep

\* The loop has a next step to take: the listing, the turn of a listed
\* file, or the poll sleep (within the time the model covers); and it takes
\* it: the steps of the loop are those that move pc or idx.
LoopCanStep ==
    \/ pc = "list"
    \/ pc = "files" /\ idx <= Len(pdf_files)
    \/ pc = "files" /\ idx > Len(pdf_files)
          /\ now + SCAN_INTERVAL_SECONDS <= MaxTime

LoopAdvance ==
    /\ LoopCanStep
    /\ pc' \in {"list", "files"}
    /\ idx' \in 1..(Len(pdf_files) + 1)

SpecFair == Init /\ [][NextFair]_vars /\ WF_<<pc, idx>>(LoopAdvance)

\* ========================================================================
\* Properties.

\* A step of the for loop that called process_pdf_file on f.
ProcessStepOn(f) ==
    /\ pc = "files" /\ idx <= Len(pdf_files) /\ pdf_files[idx] = f
    /\ idx' = idx + 1
    /\ last'.op = "process"

Processed == last.op = "process"
WentToUpload == Processed /\ last.path \in {"valid", "revalid"}

\* C1: a document is never uploaded twice: no upload is accepted for a file
\* of the scan directory that already had an upload accepted, also after a
\* delete_file that failed.
C1_NeverUploadedTwice == ~(Processed /\ last.again)

\* C2: delete_file is called on a file that passed the validity check only
\* after the upload driver returned success; a valid file whose upload did
\* not succeed goes to move_to_archive and is not deleted; every other
\* delete_file is the give-up of a call that found the file invalid with
\* retry_count >= VALIDATION_RETRY_COUNT.
C2_ValidNeverDiscarded ==
    Processed =>
        /\ last.del # "none" =>
              \/ WentToUpload /\ last.ret /\ last.arc = "none"
              \/ /\ last.path = "giveup"
                 /\ last.rc >= VALIDATION_RETRY_COUNT
                 /\ last.log = <<>>
        /\ (WentToUpload /\ ~last.ret) =>
              (last.arc # "none" /\ last.del = "none")
        /\ last.arc = "ok" => last.dest \in archive

\* C2 witness: a valid file whose upload failed was archived, not deleted.
C2_Witness ==
    /\ WentToUpload /\ ~last.ret /\ last.arc = "ok" /\ last.del = "none"
    /\ Len(last.log) > 1

\* C3: a file that never becomes valid and stays in the directory is charged
\* exactly VALIDATION_RETRY_COUNT attempts, the first at first observation;
\* the wait scheduled after the i-th charged attempt (i from 0) is
\* BASE * 2^i; no attempt is made before the wait has elapsed; the first
\* evaluation at or after the end of the last wait calls delete_file and
\* removes the entry (the file is gone when the unlink goes through).
WaitsDouble(w) ==
    /\ Len(w) > 0 => w[1] = VALIDATION_RETRY_BASE_WAIT_SECONDS
    /\ \A i \in 1..(Len(w) - 1) : w[i + 1] = 2 * w[i]

C3_Schedule ==
    \A f \in DOMAIN retry_state :
        /\ retry_state[f].retry_count = Len(attempts[f])
        /\ retry_state[f].retry_count <= VALIDATION_RETRY_COUNT
        /\ WaitsDouble(attempts[f])

C3_StepOn(f) ==
    (ProcessStepOn(f) /\ last'.path \in {"wait", "resched", "giveup"}) =>
        LET had == f \in DOMAIN retry_state
            rc == IF had THEN retry_state[f].retry_count ELSE 0
            next == IF had THEN retry_state[f].next_retry_time ELSE now
        IN  /\ now < next =>
                (last'.path = "wait" /\ retry_state' = retry_state)
            /\ (now >= next /\ rc < VALIDATION_RETRY_COUNT) =>
                /\ last'.path = "resched"
                /\ retry_state'[f] =
                      [retry_count |-> rc + 1,
                       next_retry_time |->
                          now + VALIDATION_RETRY_BASE_WAIT_SECONDS * 2^rc]
                /\ attempts'[f] =
                      Append(attempts[f],
                             VALIDATION_RETRY_BASE_WAIT_SECONDS * 2^rc)
            /\ (now >= next /\ rc >= VALIDATION_RETRY_COUNT) =>
                /\ last'.path = "giveup"
                /\ Len(attempts[f]) = VALIDATION_RETRY_COUNT
                /\ last'.del # "none"
                /\ last'.log = <<>>
                /\ f \notin DOMAIN retry_state'
                /\ last'.del = "ok" => ~present'[f]

C3_NeverValidFile ==
    [](C3_Schedule) /\ [][\A f \in Files : C3_StepOn(f)]_vars

\* C3 witness: a file was given up after its VALIDATION_RETRY_COUNT charged
\* attempts and deleted.
C3_Witness ==
    /\ Processed /\ last.path = "giveup" /\ last.del = "ok"
    /\ last.rc = VALIDATION_RETRY_COUNT
    /\ ~present[last.file] /\ last.file \notin DOMAIN retry_state

\* f has an entry whose waiting period has not elapsed.
Unexpired(f) ==
    f \in DOMAIN retry_state /\ now < retry_state[f].next_retry_time

\* The step left everything about the file as it was.
Untouched(f) ==
    /\ last'.path = "wait"
    /\ retry_state' = retry_state
    /\ last'.log = <<>> /\ last'.del = "none" /\ last'.arc = "none"
    /\ present' = present /\ content' = content /\ archive' = archive
    /\ now' = now

\* C4 as stated: a call for a file with an entry, before next_retry_time,
\* leaves the file untouched: no validity check, retry_state unchanged, no
\* upload, no disposition, outcome Skip.
C4_WaitingFileUntouched ==
    [][\A f \in Files : (ProcessStepOn(f) /\ Unexpired(f)) => Untouched(f)]_vars

\* C4 amended: a call for a file with an entry, before next_retry_time, whose
\* validity check at line 228 finds the file invalid leaves the file
\* untouched (no second check, retry_state unchanged, no upload, no
\* disposition, Skip); when that check finds the file valid the entry is
\* removed and the upload driver runs in that call.
C4_WaitingInvalidFileUntouched ==
    [][\A f \in Files :
          (ProcessStepOn(f) /\ Unexpired(f)) =>
              /\ ~is_pdf_valid(content[f], FALSE) => Untouched(f)
              /\ IF last'.path = "valid"
                 THEN /\ is_pdf_valid(content[f], FALSE)
                      /\ f \notin DOMAIN retry_state'
                      /\ last'.log # <<>>
                 ELSE Untouched(f)]_vars

\* C4 witness: a file in its waiting period was skipped.
C4_Witness ==
    /\ Processed /\ last.path = "wait"
    /\ last.file \in DOMAIN retry_state
    /\ now < retry_state[last.file].next_retry_time

\* C5: a file whose due re-check (line 253) finds it valid, after fewer than
\* VALIDATION_RETRY_COUNT charged attempts, has its entry removed and goes
\* through the upload driver and a disposition in that same call.
C5_BecameValidUploadsSameCycle ==
    (Processed /\ last.path = "revalid") =>
        /\ last.rc < VALIDATION_RETRY_COUNT
        /\ last.file \notin DOMAIN retry_state
        /\ attempts[last.file] = <<>>
        /\ last.log # <<>> /\ last.log[1].ev = "auth"
        /\ (last.del # "none" \/ last.arc # "none")

\* C5 witness: a file with charged attempts became valid at the re-check and
\* was uploaded and deleted in that call.
C5_Witness ==
    /\ Processed /\ last.path = "revalid" /\ last.rc >= 1
    /\ last.ret /\ last.del = "ok"

\* The events of the last upload driver call.
IsUpload(e) == e.ev = "upload"
IsSleep(e) == e.ev = "sleep"
IsAuth(e) == e.ev = "auth"
Uploads == SelectSeq(last.log, IsUpload)
Sleeps == SelectSeq(last.log, IsSleep)
Auths == SelectSeq(last.log, IsAuth)
UploadsBefore(p) == Len(SelectSeq(SubSeq(last.log, 1, p - 1), IsUpload))

\* C6: when every authentication succeeds and every upload attempt fails,
\* the driver makes exactly UPLOAD_RETRY_COUNT upload attempts, sleeps
\* UPLOAD_RETRY_BASE_WAIT_SECONDS * 2^i right after failed attempt i (from
\* 0) except the last, returns false; process_pdf_file then calls
\* move_to_archive and never delete_file.
C6_UploadExhaustedArchives ==
    (/\ WentToUpload
     /\ \A p \in 1..Len(last.log) : IsAuth(last.log[p]) => last.log[p].ok
     /\ \A p \in 1..Len(last.log) : IsUpload(last.log[p]) => ~last.log[p].ok)
    =>
        /\ Len(Uploads) = UPLOAD_RETRY_COUNT
        /\ Len(Sleeps) = UPLOAD_RETRY_COUNT - 1
        /\ \A p \in 1..Len(last.log) :
              IsSleep(last.log[p]) =>
                  /\ p > 1 /\ IsUpload(last.log[p - 1])
                  /\ last.log[p].n =
                        UPLOAD_RETRY_BASE_WAIT_SECONDS
                            * 2^(UploadsBefore(p) - 1)
        /\ IsUpload(last.log[Len(last.log)])
        /\ ~last.ret
        /\ last.arc # "none" /\ last.del = "none"
        /\ last.arc = "ok" => last.dest \in archive

\* C6 witness: all UPLOAD_RETRY_COUNT attempts failed and the file was
\* archived.
C6_Witness ==
    /\ WentToUpload /\ Len(Uploads) = UPLOAD_RETRY_COUNT /\ ~last.ret
    /\ \A p \in 1..Len(last.log) : IsAuth(last.log[p]) => last.log[p].ok
    /\ last.arc = "ok" /\ ~present[last.file]

\* C7: when the first authentication fails, no upload attempt is made, no
\* sleep happens, the driver returns false, and the file goes to
\* move_to_archive: it is not deleted and keeps no retry_state entry.
C7_FirstAuthFailureArchives ==
    (WentToUpload /\ ~last.log[1].ok) =>
        /\ last.log = <<Event("auth", FALSE, 1)>>
        /\ ~last.ret
        /\ last.arc # "none" /\ last.del = "none"
        /\ last.arc = "ok" => last.dest \in archive
        /\ last.file \notin DOMAIN retry_state

\* C7 witness: the first authentication failed and the file was archived.
C7_Witness ==
    /\ WentToUpload /\ Len(last.log) = 1 /\ ~last.log[1].ok
    /\ last.arc = "ok" /\ ~present[last.file]

\* C8: a failed re-authentication ends the call at once with false: it is
\* the last event, whatever number of attempts is left, and every upload
\* attempt made had its own successful authentication before it.
C8_ReauthFailureEndsCall ==
    WentToUpload =>
        \A p \in 2..Len(last.log) :
            (IsAuth(last.log[p]) /\ ~last.log[p].ok) =>
                /\ p = Len(last.log)
                /\ ~last.ret
                /\ IsSleep(last.log[p - 1])
                /\ Len(Uploads) = Len(Auths) - 1
                /\ Len(Uploads) < UPLOAD_RETRY_COUNT
                /\ \A q \in 1..(p - 1) : IsAuth(last.log[q]) => last.log[q].ok

\* C8 witness: the re-authentication after the first failed attempt failed,
\* with attempts left.
C8_Witness ==
    /\ WentToUpload /\ Len(last.log) = 4 /\ Len(Uploads) = 1
    /\ IsAuth(last.log[4]) /\ ~last.log[4].ok /\ ~last.ret

\* C9: when the file's name is taken in the archive directory the archived
\* file gets the stem plus a timestamp as its name, and no successful
\* move_to_archive replaces a file of the archive: the archive grows by one
\* file per successful archive.
C9_ArchiveNeverOverwrites ==
    (Processed /\ last.arc = "ok") =>
        /\ last.clash =>
              /\ last.dest.base = last.file.base
              /\ Len(last.dest.ts) = Len(last.file.ts) + 1
              /\ SubSeq(last.dest.ts, 1, Len(last.file.ts)) = last.file.ts
        /\ ~last.replaced

\* C10: a file has an entry in retry_state exactly when it was observed
\* invalid and has not since been confirmed valid, deleted, or dropped by
\* the cleanup after it disappeared; so also after a give-up whose
\* delete_file failed.
C10_EntryIffObservedInvalid ==
    \A f \in Files : (f \in DOMAIN retry_state) <=> observed[f]

\* The files of a listing.
Listed(listing) == {listing[i] : i \in 1..Len(listing)}

\* C11: after the cleanup pass of a cycle every key of retry_state is a file
\* of that cycle's listing; the entry of a file that left the directory
\* between two cycles is purged by the next cleanup; the cleanup removes no
\* entry of a file that is listed and leaves such an entry as it was.
C11_CleanupStep ==
    (pc = "list" /\ pc' = "files") =>
        /\ DOMAIN retry_state' \subseteq Listed(pdf_files')
        /\ \A k \in DOMAIN retry_state :
              /\ ~present[k] => k \notin DOMAIN retry_state'
              /\ k \in Listed(pdf_files') =>
                    (k \in DOMAIN retry_state'
                        /\ retry_state'[k] = retry_state[k])

C11_CleanupPurgesUnlisted ==
    /\ [](last.op = "list" =>
            /\ DOMAIN retry_state \subseteq Listed(pdf_files)
            /\ last.purged \cap Listed(pdf_files) = {})
    /\ [][C11_CleanupStep]_vars

\* C11 witness: a cleanup purged the entry of a file that had left the
\* directory and kept the entry of a file still listed.
C11_Witness ==
    /\ last.op = "list" /\ last.purged # {}
    /\ DOMAIN retry_state # {}
    /\ \A k \in last.purged : ~present[k]

\* C12: a Skip outcome takes no time and does not end the cycle: the loop
\* goes on to the next file of the listing.  Within a cycle the listing is
\* fixed, sorted and without duplicates; the files get their turn one by
\* one in that order; a listed file that still exists at its turn is
\* evaluated by process_pdf_file; the poll sleep that ends the cycle comes
\* only after every listed file has had its turn.
C12_SkipStep(f) ==
    (ProcessStepOn(f) /\ last'.path \in {"wait", "resched"}) =>
        /\ now' = now
        /\ pc' = "files"
        /\ last'.log = <<>>

C12_Turn ==
    pc = "files" =>
        /\ pc' = "list" => idx > Len(pdf_files)
        /\ pc' = "files" => pdf_files' = pdf_files
        /\ idx' # idx =>
              /\ idx <= Len(pdf_files) /\ idx' = idx + 1 /\ pc' = "files"
              /\ last'.file = pdf_files[idx]
              /\ last'.op = IF present[pdf_files[idx]]
                            THEN "process" ELSE "missing"

C12_Listing ==
    /\ idx \in 1..(Len(pdf_files) + 1)
    /\ \A i \in 1..Len(pdf_files) : \A j \in (i + 1)..Len(pdf_files) :
          NameLess(pdf_files[i], pdf_files[j])

C12_SkipIsNonBlocking ==
    /\ [](C12_Listing)
    /\ [][C12_Turn /\ \A f \in Files : C12_SkipStep(f)]_vars

\* C12 witness: the first file of a listing of two was skipped and the
\* second was evaluated after it at the same time of the same cycle.
C12_Witness ==
    /\ pc = "files" /\ Len(pdf_files) = 2 /\ idx = 3
    /\ Processed /\ last.file = pdf_files[2]
    /\ pdf_files[1] \in DOMAIN retry_state
    /\ now < retry_state[pdf_files[1]].next_retry_time
    /\ retry_state[pdf_files[1]].next_retry_time - now
          = VALIDATION_RETRY_BASE_WAIT_SECONDS

\* C13: the scan loop ends only on the termination signal.  Every call of
\* process_pdf_file, whatever failed in it, comes back to the for loop; an
\* unexpected exception in a cycle is followed by the poll sleep and a new
\* cycle; a failed listing is an empty listing; and while the loop runs its
\* next step is always possible: the listing when a cycle starts, the turn
\* of the next listed file, the poll sleep after the last one.
C13_LoopStep ==
    (pc' # pc \/ idx' # idx) =>
    /\ (pc # "done" /\ pc' = "done") => last'.op = "interrupt"
    /\ last'.op \in {"process", "missing"} => pc' = "files"
    /\ last'.op \in {"list", "listfail"} => (pc' = "files" /\ idx' = 1)
    /\ last'.op \in {"error", "sleep"} =>
          (pc' = "list" /\ now' = now + SCAN_INTERVAL_SECONDS)

C13_LoopRuns ==
    /\ pc \in {"list", "files", "done"}
    /\ pc = "list" => ENABLED ListAndCleanup
    /\ (pc = "files" /\ idx <= Len(pdf_files)) =>
          ENABLED (ProcessFile \/ SkipMissing)
    /\ (pc = "files" /\ idx > Len(pdf_files)
            /\ now + SCAN_INTERVAL_SECONDS <= MaxTime) => ENABLED Sleep

C13_LoopNeverExits ==
    [](C13_LoopRuns) /\ [][C13_LoopStep]_vars

\* C13 witness: an unexpected exception in a cycle that had a file left to
\* visit was caught: the loop slept, kept its retry_state and stands at the
\* start of a new cycle.
C13_Witness ==
    /\ last.op = "error" /\ pc = "list" /\ now > 0
    /\ present[last.file] /\ last.file \in DOMAIN retry_state
    /\ ENABLED ListAndCleanup

\* The waits an entry at retry_count rc still has before it, and the time
\* of the evaluation that gives the file up if it never becomes valid.
RECURSIVE RemainingWaits(_)
RemainingWaits(rc) ==
    IF rc >= VALIDATION_RETRY_COUNT THEN 0
    ELSE BackoffWait(VALIDATION_RETRY_BASE_WAIT_SECONDS, rc)
            + RemainingWaits(rc + 1)

GiveUpTime(f) ==
    IF f \in DOMAIN retry_state
    THEN (IF retry_state[f].next_retry_time > now
          THEN retry_state[f].next_retry_time
          ELSE now + SCAN_INTERVAL_SECONDS)
            + RemainingWaits(retry_state[f].retry_count)
    ELSE now + RemainingWaits(0)

\* The file's whole schedule lies within the time the model covers and no
\* other file is there, or can come, whose upload would delay it: it has an
\* entry, or it is in the directory when a cycle starts.
WithinHorizon(f) ==
    /\ f \in DOMAIN retry_state \/ pc = "list"
    /\ GiveUpTime(f) <= MaxTime
    /\ deposits = MaxDeposits /\ \A g \in Files \ {f} : ~present[g]

\* C14: while the cycles keep running, the clock advances and delete_file
\* and move_to_archive succeed, every PDF file in the scan directory
\* eventually leaves it: uploaded and deleted, archived after a failed
\* upload, or deleted after its validation retries; no file waits or is
\* skipped forever.
\* (The fairness of SpecFair is that of the loop's own steps: LoopCanStep
\* is exactly their being enabled.)
C14_EveryFileEventuallyRemoved ==
    /\ [](LoopCanStep <=> ENABLED (LoopStep /\ DispositionsSucceed))
    /\ \A f \in Files : (present[f] /\ WithinHorizon(f)) ~> ~present[f]

\* C14 witness: a file that was invalid at every attempt was given up at
\* the end of its last wait and deleted.
C14_Witness ==
    /\ Processed /\ last.path = "giveup" /\ last.del = "ok"
    /\ now = RemainingWaits(0)
    /\ ~present[last.file]

\* C15: the upload driver ends at the first accepted attempt j: it returns
\* true after exactly j upload attempts and j authentications, the accepted
\* attempt is its last event (no sleep, authentication or upload after it),
\* each earlier attempt failed and was followed by one sleep;
\* process_pdf_file then calls delete_file and not move_to_archive.  An
\* upload accepted at the first attempt is the only attempt of the call.
C15_Call ==
    WentToUpload =>
        /\ \A p \in 1..Len(last.log) :
              (IsUpload(last.log[p]) /\ last.log[p].ok) =>
                  (p = Len(last.log) /\ last.ret)
        /\ last.ret =>
              LET j == Len(Uploads) IN
              /\ j \in 1..UPLOAD_RETRY_COUNT
              /\ Uploads[j].ok
              /\ \A i \in 1..(j - 1) : ~Uploads[i].ok
              /\ Len(Auths) = j
              /\ \A i \in 1..j : Auths[i].ok
              /\ Len(Sleeps) = j - 1
              /\ Len(last.log) = 3 * j - 1
              /\ last.del # "none" /\ last.arc = "none"
        /\ (Len(last.log) >= 2 /\ last.log[2].ok) =>
              (last.ret /\ Len(last.log) = 2 /\ Len(Uploads) = 1)

C15_Deleted(f) ==
    (ProcessStepOn(f) /\ last'.ret) =>
        /\ archive' = archive
        /\ last'.del = "ok" => ~present'[f]

C15_FirstSuccessEndsLoop ==
    [](C15_Call) /\ [][\A f \in Files : C15_Deleted(f)]_vars

\* C15 witness: the second attempt was accepted after the first had
\* failed, and the file was deleted.
C15_Witness ==
    /\ WentToUpload /\ last.ret /\ Len(Uploads) = 2
    /\ ~Uploads[1].ok /\ Uploads[2].ok
    /\ last.del = "ok" /\ ~present[last.file]

\* C16: while an entry exists its retry_count never goes down: no step of
\* process_pdf_file, of the cleanup or of the environment lowers it; it
\* changes only by +1, in a call of process_pdf_file for that file that is
\* due and finds the file still invalid (line 261).  An entry is created
\* at 0 and charged its first attempt in the same call.
C16_Entry(f) ==
    /\ (f \in DOMAIN retry_state /\ f \in DOMAIN retry_state') =>
          /\ retry_state'[f].retry_count >= retry_state[f].retry_count
          /\ retry_state'[f] # retry_state[f] =>
                /\ retry_state'[f].retry_count
                      = retry_state[f].retry_count + 1
                /\ ProcessStepOn(f) /\ last'.path = "resched"
                /\ now >= retry_state[f].next_retry_time
                /\ present[f]
    /\ (f \notin DOMAIN retry_state /\ f \in DOMAIN retry_state') =>
          /\ retry_state'[f].retry_count = 1
          /\ ProcessStepOn(f) /\ last'.path = "resched"

C16_RetryCountMonotonic ==
    [][\A f \in Files : C16_Entry(f)]_vars

\* C16 witness: a due attempt raised the retry_count of an existing entry
\* from 1 to 2.
C16_Witness ==
    /\ Processed /\ last.path = "resched" /\ last.rc = 1
    /\ last.file \in DOMAIN retry_state
    /\ retry_state[last.file].retry_count = 2

\* f has an entry that is due and has used up its retries.
DueAndExhausted(f) ==
    /\ f \in DOMAIN retry_state
    /\ now >= retry_state[f].next_retry_time
    /\ retry_state[f].retry_count >= VALIDATION_RETRY_COUNT

\* The step gave the file up: delete_file was called, the entry is gone, no
\* upload was attempted and nothing was archived.
GaveUp(f) ==
    /\ last'.path = "giveup"
    /\ f \notin DOMAIN retry_state'
    /\ last'.del # "none" /\ last'.arc = "none"
    /\ last'.log = <<>>
    /\ archive' = archive
    /\ last'.del = "ok" => ~present'[f]

\* C17 as stated: a call for a file whose entry is due with retry_count >=
\* VALIDATION_RETRY_COUNT removes the entry and gives the file up: the file
\* is deleted and no upload is attempted in that call.
C17_DueExhaustedGivesUp ==
    [][\A f \in Files :
          (ProcessStepOn(f) /\ DueAndExhausted(f)) => GaveUp(f)]_vars

\* C17 amended: a call for a file whose entry is due with retry_count >=
\* VALIDATION_RETRY_COUNT, and whose validity check at line 228 finds the
\* file invalid, removes the entry and gives the file up: delete_file is
\* called, without a second validity check and without an upload; when
\* that check finds the file valid the entry is removed and the upload
\* driver runs in that call.
C17_DueExhaustedInvalidGivesUp ==
    [][\A f \in Files :
          (ProcessStepOn(f) /\ DueAndExhausted(f)) =>
              /\ ~is_pdf_valid(content[f], FALSE) => GaveUp(f)
              /\ IF last'.path = "valid"
                 THEN /\ is_pdf_valid(content[f], FALSE)
                      /\ f \notin DOMAIN retry_state'
                      /\ last'.log # <<>>
                 ELSE GaveUp(f)]_vars

\* C17 witness: a file was given up at a due evaluation with its retries
\* used up; the unlink failed and the entry was removed all the same.
C17_Witness ==
    /\ Processed /\ last.path = "giveup"
    /\ last.rc >= VALIDATION_RETRY_COUNT
    /\ last.del = "failed" /\ present[last.file]
    /\ last.file \notin DOMAIN retry_state

\* The authentications among the first p events of the call.
AuthsUpTo(p) == Len(SelectSeq(SubSeq(last.log, 1, p), IsAuth))

\* C18: every call of the upload driver starts with its own authentication;
\* every upload attempt comes right after a successful authentication and
\* uses the token of that authentication, which no earlier attempt used;
\* every attempt after the first comes, in this order, after the failure
\* of the previous attempt, a backoff sleep and the new authentication.
C18_FreshTokenPerAttempt ==
    WentToUpload =>
        /\ IsAuth(last.log[1]) /\ last.log[1].n = 1
        /\ \A p \in 1..Len(last.log) :
              /\ IsAuth(last.log[p]) => last.log[p].n = AuthsUpTo(p)
              /\ IsUpload(last.log[p]) =>
                    /\ p >= 2
                    /\ IsAuth(last.log[p - 1]) /\ last.log[p - 1].ok
                    /\ last.log[p].n = last.log[p - 1].n
                    /\ \A q \in 1..(p - 1) :
                          IsUpload(last.log[q]) =>
                              last.log[q].n # last.log[p].n
                    /\ p > 2 =>
                          /\ p >= 5
                          /\ IsSleep(last.log[p - 2])
                          /\ IsUpload(last.log[p - 3])
                          /\ ~last.log[p - 3].ok

\* C18 witness: a call made UPLOAD_RETRY_COUNT attempts, each with the
\* token of its own authentication.
C18_Witness ==
    /\ WentToUpload /\ Len(Uploads) = UPLOAD_RETRY_COUNT
    /\ \A i \in 1..UPLOAD_RETRY_COUNT : Uploads[i].n = i
    /\ Len(Auths) = UPLOAD_RETRY_COUNT

\* C19: every entry of retry_state has 0 <= retry_count <=
\* VALIDATION_RETRY_COUNT; a retry_count is raised only from below the
\* limit; an entry at the limit is never changed again, only removed.
C19_Bounds ==
    \A f \in DOMAIN retry_state :
        /\ retry_state[f].retry_count >= 0
        /\ retry_state[f].retry_count <= VALIDATION_RETRY_COUNT

C19_Raise(f) ==
    (f \in DOMAIN retry_state /\ f \in DOMAIN retry_state') =>
        /\ retry_state'[f].retry_count > retry_state[f].retry_count =>
              retry_state[f].retry_count < VALIDATION_RETRY_COUNT
        /\ retry_state[f].retry_count = VALIDATION_RETRY_COUNT =>
              retry_state'[f] = retry_state[f]

C19_RetryCountBounded ==
    [](C19_Bounds) /\ [][\A f \in Files : C19_Raise(f)]_vars

\* C19 witness: an entry at the limit was evaluated before its last wait
\* had elapsed and left as it was.
C19_Witness ==
    /\ Processed /\ last.path = "wait"
    /\ last.file \in DOMAIN retry_state
    /\ retry_state[last.file].retry_count = VALIDATION_RETRY_COUNT

\* C20: a file that the validity check of line 228 finds valid goes to the
\* upload driver in that call, whatever entry it has in retry_state (any
\* retry_count, next_retry_time elapsed or not), and that entry is removed;
\* a file whose content is invalid never takes that way; and whenever a
\* call makes an upload attempt for a file, retry_state holds no entry for
\* it and the entries of the other files are as they were.
C20_Step(f) ==
    ProcessStepOn(f) =>
        /\ last'.path = "valid" =>
              /\ is_pdf_valid(content[f], FALSE)
              /\ last'.log # <<>> /\ IsAuth(last'.log[1])
              /\ (last'.del # "none" \/ last'.arc # "none")
        /\ ~is_pdf_valid(content[f], FALSE) => last'.path # "valid"
        /\ last'.log # <<>> =>
              /\ last'.path \in {"valid", "revalid"}
              /\ retry_state' = RemoveKey(retry_state, f)
              /\ attempts'[f] = <<>>

C20_ValidFileAlwaysUploaded ==
    [][\A f \in Files : C20_Step(f)]_vars

\* C20 witness: the loop is at the turn of a file that is complete and has
\* an entry with charged attempts whose waiting period has not elapsed; the
\* call that finds it valid removes the entry and uploads it.
C20_Witness ==
    /\ pc = "files" /\ idx <= Len(pdf_files)
    /\ LET f == pdf_files[idx] IN
          /\ present[f] /\ is_pdf_valid(content[f], FALSE)
          /\ f \in DOMAIN retry_state
          /\ retry_state[f].retry_count >= 2
          /\ now < retry_state[f].next_retry_time
          /\ ENABLED (/\ ProcessFile
                      /\ last'.path = "valid" /\ last'.ret
                      /\ f \notin DOMAIN retry_state'
                      /\ ~present'[f])

====
